---- MODULE Spec2Model ----
(***************************************************************************)
(* Model of src/pytest_mock.py: the logging helper, the error classifier,  *)
(* the HTTP action helpers and the test scenarios that drive them.         *)
(*                                                                         *)
(* Strings built by f-strings are sequences of string fragments, joined    *)
(* with \o, so that a formatted message differs from the message it        *)
(* embeds.  The proxy server is external: every response status it sends   *)
(* is a nondeterministic choice.                                           *)
(***************************************************************************)
EXTENDS Integers, Sequences, FiniteSets, TLC

VARIABLES
    log,        \* calls made to the logging module, in order: [level, message]
    last,       \* outcome of the last helper invocation
    issued,     \* the service's users: set of [key, user_id]
    calls,      \* number of direct helper invocations made
    scenario,   \* the test function being run
    pc,         \* position inside the running test function
    outcome,    \* "running", "passed" or "failed"
    locals,     \* local variables of the running test function
    tasks       \* the coroutines handed to asyncio.gather by test_user_new

vars == <<log, last, issued, calls, scenario, pc, outcome, locals, tasks>>

---------------------------------------------------------------------------
(* Bounds *)

MaxCalls == 2       \* direct helper invocations explored per behaviour
MaxKeys == 2        \* keys the service can issue
MaxPolls == 4       \* cap on the polls explored in test_users_budgets_reset

---------------------------------------------------------------------------
(* Values *)

None == <<"None">>

AdminToken == <<"sk-", "1234">>

Key(n) == <<"sk-", "user", ToString(n)>>

Keys == {Key(n) : n \in 1..MaxKeys}

\* f"krrish_{time.time()}@berri.ai"
KrrishId(t) == <<"krrish_", ToString(t), "@berri.ai">>

Times == {1, 2}

\* identifier the service gives a user created without an explicit user_id
GeneratedId(k) == <<"generated-", k[3]>>

Statuses == {200, 400, 401, 403, 404, 500, 599}

IntVal(n) == [type |-> "int", v |-> n]

JsonVal(j) == [type |-> "json", v |-> j]

NoneVal == [type |-> "NoneType", v |-> None]

Return(value, logs) == [outcome |-> "return", value |-> value, logs |-> logs]

Raise(message, logs) ==
    [outcome |-> "raise", value |-> [type |-> "Exception", v |-> message], logs |-> logs]

---------------------------------------------------------------------------
(* ai_log *)

ai_log(message, level) ==
    IF level = "info" THEN <<[level |-> "INFO", message |-> message]>>
    ELSE IF level = "error" THEN <<[level |-> "ERROR", message |-> message]>>
    ELSE IF level = "debug" THEN <<[level |-> "DEBUG", message |-> message]>>
    ELSE <<[level |-> "WARNING",
            message |-> <<"Unknown log level: ", level, ". Message: ">> \o message]>>

---------------------------------------------------------------------------
(* ai_dynamic_error_handling *)

error_messages ==
    (400 :> <<"Bad Request: The server could not understand the request.">>)
    @@ (401 :> <<"Unauthorized: Access is denied due to invalid credentials.">>)
    @@ (403 :> <<"Forbidden: You don't have permission to access this resource.">>)
    @@ (404 :> <<"Not Found: The requested resource could not be found.">>)
    @@ (500 :> <<"Internal Server Error: The server encountered an error.">>)

ErrorMessage_NoTable(status_code) == <<"Unexpected error: ", ToString(status_code)>>

ErrorMessage(status_code) ==
    IF status_code \in DOMAIN error_messages
    THEN error_messages[status_code]
    ELSE <<"Unexpected error: ", ToString(status_code)>>

ai_dynamic_error_handling(status_code, response_text) ==
    LET error_message == ErrorMessage(status_code)
    IN  Return([status_code |-> status_code, error_message |-> error_message],
               ai_log(<<"Error occurred: ">> \o error_message
                      \o <<"\nResponse: ">> \o response_text, "error"))

---------------------------------------------------------------------------
(* Responses of the proxy server *)

Response(status, text, json) == [status |-> status, text |-> text, json |-> json]

ErrorText(status) == <<"{\"error\": ", ToString(status), "}">>

\* POST /user/new answered 200: the created user with its key
NewUserOk(user_id, k) ==
    LET uid == IF user_id = None THEN GeneratedId(k) ELSE user_id
        body == [key |-> k, user_id |-> uid]
    IN  Response(200, <<"{\"key\": ">> \o k \o <<", \"user_id\": ">> \o uid \o <<"}">>, body)

\* GET /user/info answered 200
UserInfoOk(get_user, reset_at) ==
    LET body == [user_info |-> [user_id |-> get_user, budget_reset_at |-> reset_at]]
    IN  Response(200, <<"{\"user_info\": ">> \o get_user \o <<", ">> \o reset_at \o <<"}">>,
                 body)

Failure(status) == Response(status, ErrorText(status), None)

---------------------------------------------------------------------------
(* new_user *)

NewUserRequest(user_id, budget, budget_duration) ==
    LET data == [models |-> <<"azure-models">>,
                 aliases |-> [mistral_7b |-> "gpt-3.5-turbo"],
                 duration |-> None,
                 max_budget |-> budget,
                 budget_duration |-> budget_duration]
    IN  [method |-> "POST",
         url |-> <<"http://0.0.0.0:4000/user/new">>,
         headers |-> [Authorization |-> <<"Bearer sk-1234">>,
                      Content_Type |-> "application/json"],
         data |-> IF user_id # None THEN data @@ [user_id |-> user_id] ELSE data]

new_user_ReturnsOnError(i, user_id, budget, budget_duration, response) ==
    Return(JsonVal(response.json),
           ai_log(<<"Response ", ToString(i), " (Status code: ", ToString(response.status),
                    "): ">> \o response.text, "info"))

new_user(i, user_id, budget, budget_duration, response) ==
    LET status == response.status
        response_text == response.text
        logged == ai_log(<<"Response ", ToString(i), " (Status code: ", ToString(status),
                           "): ">> \o response_text, "info")
    IN  IF status # 200
        THEN Raise(<<"Request ", ToString(i), " did not return a 200 status code: ",
                     ToString(status)>>,
                   logged \o ai_dynamic_error_handling(status, response_text).logs)
        ELSE Return(JsonVal(response.json), logged)

---------------------------------------------------------------------------
(* get_user_info *)

UserInfoRequest(get_user, call_user, view_all) ==
    [method |-> "GET",
     url |-> IF view_all = "True"
             THEN <<"http://0.0.0.0:4000/user/info">>
             ELSE <<"http://0.0.0.0:4000/user/info?user_id=">> \o get_user,
     headers |-> [Authorization |-> <<"Bearer ">> \o call_user,
                  Content_Type |-> "application/json"]]

get_user_info_RaisesOnAnyError(get_user, call_user, view_all, response) ==
    LET logged == ai_log(<<"User info response for ">> \o get_user \o <<": ">>
                         \o response.text, "info")
    IN  IF response.status # 200
        THEN Raise(<<"Request did not return a 200 status code: ",
                     ToString(response.status)>>,
                   logged \o ai_dynamic_error_handling(response.status, response.text).logs)
        ELSE Return(JsonVal(response.json), logged)

get_user_info(get_user, call_user, view_all, response) ==
    LET status == response.status
        response_text == response.text
        logged == ai_log(<<"User info response for ">> \o get_user \o <<": ">>
                         \o response_text, "info")
        handled == logged \o ai_dynamic_error_handling(status, response_text).logs
    IN  IF status # 200
        THEN IF call_user # get_user
             THEN Return(IntVal(status), handled)
             ELSE Raise(<<"Request did not return a 200 status code: ", ToString(status)>>,
                        handled \o ai_log(<<"call_user: ">> \o call_user \o <<"; get_user: ">>
                                          \o get_user, "error"))
        ELSE Return(JsonVal(response.json), logged)

---------------------------------------------------------------------------
(* chat_completion, chat_completion_streaming *)

ChatRequest(key, model, stream) ==
    [api_key |-> key,
     base_url |-> <<"http://0.0.0.0:4000">>,
     model |-> model,
     stream |-> stream]

chat_completion_ReturnsResponse(key, model, response) ==
    Return([type |-> "completion", v |-> response],
           ai_log(<<"Chat completion response: ", response>>, "info"))

\* the function body ends after the log call: the coroutine's result is None
chat_completion(key, model, response) ==
    Return(NoneVal, ai_log(<<"Chat completion response: ", response>>, "info"))

chat_completion_streaming(key, model, chunks) ==
    Return(NoneVal,
           [n \in 1..Len(chunks) |->
               ai_log(<<"Streaming chunk received: ", chunks[n]>>, "info")[1]])

---------------------------------------------------------------------------
(* State shared by all specifications *)

IssuedKeys == {u.key : u \in issued}

\* the key call_user was issued to the user get_user
OwnKey(call_user, get_user) ==
    \E u \in issued : u.key = call_user /\ u.user_id = get_user

\* what the service may answer to POST /user/new
NewUserResponses(user_id) ==
    {Failure(s) : s \in Statuses \ {200}}
    \cup {NewUserOk(user_id, k) : k \in Keys \ IssuedKeys}

ResetValues == {<<"2024-01-01T00:00:00">>, <<"2024-01-01T00:00:05">>}

\* what the service may answer to GET /user/info
UserInfoResponses(get_user, resets) ==
    {Failure(s) : s \in Statuses \ {200}}
    \cup {UserInfoOk(get_user, r) : r \in resets}

Register(response) ==
    IF response.status = 200 THEN issued \cup {response.json} ELSE issued

NoScenario ==
    /\ scenario = "none"
    /\ pc = "idle"
    /\ outcome = "idle"
    /\ locals = <<>>
    /\ tasks = <<>>

---------------------------------------------------------------------------
(* Direct invocations of the helpers *)

Levels == {"info", "error", "debug", "warning", "critical"}

Messages == {<<"hello">>}

Bodies == {<<"body">>}

Indexes == {0, 1}

UserIds == {KrrishId(1)}

Models == {"gpt-4"}

Completions == {"completion-1"}

ChunkSeqs == {<<>>, <<"chunk-1", "chunk-2">>}

InitHelpers ==
    /\ log = <<>>
    /\ last = [op |-> "none"]
    /\ issued = {}
    /\ calls = 0
    /\ NoScenario

Invoke(op, args, result) ==
    /\ calls < MaxCalls
    /\ calls' = calls + 1
    /\ log' = log \o result.logs
    /\ last' = [op |-> op, args |-> args, result |-> result, before |-> Len(log)]
    /\ UNCHANGED <<scenario, pc, outcome, locals, tasks>>

Call_ai_log ==
    \E message \in Messages, level \in Levels :
        /\ Invoke("ai_log", [message |-> message, level |-> level],
                  Return(NoneVal, ai_log(message, level)))
        /\ UNCHANGED issued

Call_ai_dynamic_error_handling ==
    \E status_code \in Statuses, response_text \in Bodies :
        /\ Invoke("ai_dynamic_error_handling",
                  [status_code |-> status_code, response_text |-> response_text],
                  ai_dynamic_error_handling(status_code, response_text))
        /\ UNCHANGED issued

Call_new_user ==
    \E i \in Indexes, user_id \in {None} \cup UserIds :
        \E response \in NewUserResponses(user_id) :
            /\ Invoke("new_user",
                      [i |-> i, user_id |-> user_id, response |-> response,
                       request |-> NewUserRequest(user_id, None, None)],
                      new_user(i, user_id, None, None, response))
            /\ issued' = Register(response)

Call_get_user_info ==
    \E get_user \in UserIds, call_user \in {AdminToken} \cup IssuedKeys,
       view_all \in {"None", "True"} :
        \E response \in UserInfoResponses(get_user, {<<"2024-01-01T00:00:00">>}) :
            /\ Invoke("get_user_info",
                      [get_user |-> get_user, call_user |-> call_user,
                       view_all |-> view_all, response |-> response,
                       own |-> OwnKey(call_user, get_user),
                       request |-> UserInfoRequest(get_user, call_user, view_all)],
                      get_user_info(get_user, call_user, view_all, response))
            /\ UNCHANGED issued

Call_chat_completion ==
    \E key \in {AdminToken}, model \in Models, response \in Completions :
        /\ Invoke("chat_completion",
                  [key |-> key, model |-> model, response |-> response,
                   request |-> ChatRequest(key, model, FALSE)],
                  chat_completion(key, model, response))
        /\ UNCHANGED issued

Call_chat_completion_streaming ==
    \E key \in {AdminToken}, model \in Models, chunks \in ChunkSeqs :
        /\ Invoke("chat_completion_streaming",
                  [key |-> key, model |-> model, chunks |-> chunks,
                   request |-> ChatRequest(key, model, TRUE)],
                  chat_completion_streaming(key, model, chunks))
        /\ UNCHANGED issued

NextHelpers ==
    \/ Call_ai_log
    \/ Call_ai_dynamic_error_handling
    \/ Call_new_user
    \/ Call_get_user_info
    \/ Call_chat_completion
    \/ Call_chat_completion_streaming

SpecHelpers == InitHelpers /\ [][NextHelpers]_vars

---------------------------------------------------------------------------
(* Test scenarios: shared steps *)

Start(name, first, vars0) ==
    /\ log = <<>>
    /\ last = [op |-> "none"]
    /\ issued = {}
    /\ calls = 0
    /\ scenario = name
    /\ pc = first
    /\ outcome = "running"
    /\ locals = vars0
    /\ tasks = <<>>

\* an exception leaves the test function: pytest reports the test as failed
Fail(error) ==
    /\ outcome' = "failed"
    /\ pc' = "done"
    /\ locals' = locals @@ [error |-> error]

Pass ==
    /\ outcome' = "passed"
    /\ pc' = "done"
    /\ UNCHANGED locals

Running(name, at) ==
    /\ scenario = name
    /\ outcome = "running"
    /\ pc = at

AssertionError == [type |-> "AssertionError", v |-> <<>>]

\* subscripting the integer a helper returned in place of a JSON body
TypeError == [type |-> "TypeError", v |-> <<"'int' object is not subscriptable">>]

---------------------------------------------------------------------------
(* test_user_info *)

InitUserInfo ==
    \E t \in Times :
        Start("test_user_info", "new_user",
              [get_user |-> KrrishId(t), status_admin |-> 0, status_self |-> 0,
               status_random |-> 0])

UI_new_user ==
    /\ Running("test_user_info", "new_user")
    /\ \E response \in NewUserResponses(locals.get_user) :
        LET r == new_user(0, locals.get_user, None, None, response)
        IN  /\ log' = log \o r.logs
            /\ issued' = Register(response)
            /\ IF r.outcome = "raise"
               THEN Fail(r.value)
               ELSE /\ locals' = locals @@ [key |-> r.value.v.key]
                    /\ pc' = "as_admin"
                    /\ UNCHANGED outcome
    /\ UNCHANGED <<last, calls, scenario, tasks>>

\* the value get_user_info returns is not bound to any name
UI_as_admin ==
    /\ Running("test_user_info", "as_admin")
    /\ \E response \in UserInfoResponses(locals.get_user, {<<"2024-01-01T00:00:00">>}) :
        LET r == get_user_info(locals.get_user, AdminToken, "None", response)
        IN  /\ log' = log \o r.logs
            /\ IF r.outcome = "raise"
               THEN Fail(r.value)
               ELSE /\ locals' = [locals EXCEPT !.status_admin = response.status]
                    /\ pc' = "as_user"
                    /\ UNCHANGED outcome
    /\ UNCHANGED <<last, issued, calls, scenario, tasks>>

UI_as_user ==
    /\ Running("test_user_info", "as_user")
    /\ \E response \in UserInfoResponses(locals.get_user, {<<"2024-01-01T00:00:00">>}) :
        LET r == get_user_info(locals.get_user, locals.key, "None", response)
        IN  /\ log' = log \o r.logs
            /\ IF r.outcome = "raise"
               THEN Fail(r.value)
               ELSE /\ locals' = [locals EXCEPT !.status_self = response.status]
                    /\ pc' = "new_random"
                    /\ UNCHANGED outcome
    /\ UNCHANGED <<last, issued, calls, scenario, tasks>>

UI_new_random ==
    /\ Running("test_user_info", "new_random")
    /\ \E response \in NewUserResponses(None) :
        LET r == new_user(0, None, None, None, response)
        IN  /\ log' = log \o r.logs
            /\ issued' = Register(response)
            /\ IF r.outcome = "raise"
               THEN Fail(r.value)
               ELSE /\ locals' = locals @@ [random_key |-> r.value.v.key]
                    /\ pc' = "as_random"
                    /\ UNCHANGED outcome
    /\ UNCHANGED <<last, calls, scenario, tasks>>

\* status = await get_user_info(...); assert status == 403
UI_as_random ==
    /\ Running("test_user_info", "as_random")
    /\ \E response \in UserInfoResponses(locals.get_user, {<<"2024-01-01T00:00:00">>}) :
        LET r == get_user_info(locals.get_user, locals.random_key, "None", response)
        IN  /\ log' = log \o r.logs
            /\ IF r.outcome = "raise"
               THEN Fail(r.value)
               ELSE IF r.value.type = "int" /\ r.value.v = 403
               THEN /\ outcome' = "passed"
                    /\ pc' = "done"
                    /\ locals' = [locals EXCEPT !.status_random = response.status]
               ELSE /\ outcome' = "failed"
                    /\ pc' = "done"
                    /\ locals' = [locals EXCEPT !.status_random = response.status]
                                 @@ [error |-> AssertionError]
    /\ UNCHANGED <<last, issued, calls, scenario, tasks>>

NextUserInfo ==
    \/ UI_new_user
    \/ UI_as_admin
    \/ UI_as_user
    \/ UI_new_random
    \/ UI_as_random

SpecUserInfo == InitUserInfo /\ [][NextUserInfo]_vars

---------------------------------------------------------------------------
(* test_user_new *)

FanOut == 10

\* the statuses explored for the concurrent requests
FanStatuses == {200, 500}

\* the service gives every request of the fan-out a key of its own
FanResponses(i) ==
    {Failure(st) : st \in FanStatuses \ {200}} \cup {NewUserOk(None, Key(i))}

Raised(ts) == {i \in DOMAIN ts : ts[i].state = "raise"}

Returned(ts) == {i \in DOMAIN ts : ts[i].state = "return"}

GatherResult_ReturnExceptions(ts) ==
    IF Raised(ts) \cup Returned(ts) = DOMAIN ts THEN "passed" ELSE "pending"

\* asyncio.gather(*tasks): the first exception raised by a task is raised to
\* the awaiting test; without one the await ends when every task has returned
GatherResult(ts) ==
    IF Raised(ts) # {} THEN "failed"
    ELSE IF Returned(ts) = DOMAIN ts THEN "passed"
    ELSE "pending"

InitUserNew == Start("test_user_new", "start", [session |-> "session-1"])

\* tasks = [new_user(session, i) for i in range(1, 11)]; the await starts them
UN_launch ==
    /\ Running("test_user_new", "start")
    /\ tasks' = [i \in 1..FanOut |->
                    [i |-> i, session |-> locals.session,
                     request |-> NewUserRequest(None, None, None),
                     state |-> "pending", status |-> 0, logs |-> <<>>]]
    /\ pc' = "gather"
    /\ UNCHANGED <<log, last, issued, calls, scenario, outcome, locals>>

\* the response to request i arrives and new_user(session, i) runs to its end;
\* the lines it logs are kept with the task: the process log is an
\* interleaving of the tasks' lines
UN_response ==
    /\ Running("test_user_new", "gather")
    /\ \E i \in DOMAIN tasks :
        /\ tasks[i].state = "pending"
        /\ \E response \in FanResponses(i) :
            LET r == new_user(i, None, None, None, response)
            IN  /\ tasks' = [tasks EXCEPT ![i] =
                                [@ EXCEPT !.state = r.outcome,
                                          !.status = response.status,
                                          !.logs = r.logs]]
                /\ issued' = Register(response)
    /\ UNCHANGED <<log, last, calls, scenario, pc, outcome, locals>>

\* await asyncio.gather(*tasks) ends
UN_join ==
    /\ Running("test_user_new", "gather")
    /\ GatherResult(tasks) # "pending"
    /\ outcome' = GatherResult(tasks)
    /\ pc' = "done"
    /\ UNCHANGED <<log, last, issued, calls, scenario, locals, tasks>>

NextUserNew ==
    \/ UN_launch
    \/ UN_response
    \/ UN_join

SpecUserNew == InitUserNew /\ [][NextUserNew]_vars

---------------------------------------------------------------------------
(* test_users_budgets_reset *)

LoopLimit == 3

AfterExcept_Increments(i) == i + 1

\* except: i + 1 -- the sum is computed and dropped, i keeps its value
AfterExcept(i) == i

\* while i < 3
LoopCondition(i) == i < LoopLimit

InitBudgetsReset ==
    \E t \in Times :
        Start("test_users_budgets_reset", "new_user", [get_user |-> KrrishId(t)])

BR_new_user ==
    /\ Running("test_users_budgets_reset", "new_user")
    /\ \E response \in NewUserResponses(locals.get_user) :
        LET r == new_user(0, locals.get_user, 10, <<"5s">>, response)
        IN  /\ log' = log \o r.logs
            /\ issued' = Register(response)
            /\ IF r.outcome = "raise"
               THEN Fail(r.value)
               ELSE /\ locals' = locals @@ [key |-> r.value.v.key]
                    /\ pc' = "first_info"
                    /\ UNCHANGED outcome
    /\ UNCHANGED <<last, calls, scenario, tasks>>

\* lines 157-163: the first lookup, the initial value, i = 0, the loop test
BR_first_info ==
    /\ Running("test_users_budgets_reset", "first_info")
    /\ \E response \in UserInfoResponses(locals.get_user, ResetValues) :
        LET r == get_user_info(locals.get_user, locals.key, "None", response)
        IN  /\ log' = log \o r.logs
            /\ IF r.outcome = "raise" THEN Fail(r.value)
               ELSE IF r.value.type = "int" THEN Fail(TypeError)
               ELSE /\ locals' = locals @@
                        [reset_at_init_value |-> r.value.v.user_info.budget_reset_at,
                         i |-> 0,
                         reset_at_new_value |-> None,
                         polls |-> 0,
                         exit |-> "none"]
                    /\ pc' = IF LoopCondition(0) THEN "sleep" ELSE "final"
                    /\ UNCHANGED outcome
    /\ UNCHANGED <<last, issued, calls, scenario, tasks>>

\* await asyncio.sleep(70)
BR_sleep ==
    /\ Running("test_users_budgets_reset", "sleep")
    /\ pc' = "poll"
    /\ UNCHANGED <<log, last, issued, calls, scenario, outcome, locals, tasks>>

\* lines 165-173 and the loop test that follows
BR_poll ==
    /\ Running("test_users_budgets_reset", "poll")
    /\ locals.polls < MaxPolls
    /\ \E response \in UserInfoResponses(locals.get_user, ResetValues) :
        LET r == get_user_info(locals.get_user, locals.key, "None", response)
            polled == [locals EXCEPT !.polls = @ + 1]
        IN  /\ log' = log \o r.logs
            /\ IF r.outcome = "raise" THEN Fail(r.value)
               ELSE IF r.value.type = "int" THEN Fail(TypeError)
               ELSE LET new == r.value.v.user_info.budget_reset_at
                    IN  IF locals.reset_at_init_value # new
                        THEN /\ locals' = [polled EXCEPT !.reset_at_new_value = new,
                                                         !.exit = "break"]
                             /\ pc' = "final"
                             /\ UNCHANGED outcome
                        ELSE LET i == AfterExcept(locals.i)
                             IN  /\ locals' =
                                      [polled EXCEPT
                                          !.reset_at_new_value = new,
                                          !.i = i,
                                          !.exit = IF LoopCondition(i) THEN "none"
                                                   ELSE "condition"]
                                 /\ pc' = IF LoopCondition(i) THEN "sleep" ELSE "final"
                                 /\ UNCHANGED outcome
    /\ UNCHANGED <<last, issued, calls, scenario, tasks>>

\* assert reset_at_init_value != reset_at_new_value
BR_final ==
    /\ Running("test_users_budgets_reset", "final")
    /\ IF locals.reset_at_init_value # locals.reset_at_new_value
       THEN Pass
       ELSE Fail(AssertionError)
    /\ UNCHANGED <<log, last, issued, calls, scenario, tasks>>

NextBudgetsReset ==
    \/ BR_new_user
    \/ BR_first_info
    \/ BR_sleep
    \/ BR_poll
    \/ BR_final

SpecBudgetsReset == InitBudgetsReset /\ [][NextBudgetsReset]_vars

---------------------------------------------------------------------------
(* The whole program *)

Init == InitHelpers \/ InitUserNew \/ InitUserInfo \/ InitBudgetsReset

Next == NextHelpers \/ NextUserNew \/ NextUserInfo \/ NextBudgetsReset

Spec == Init /\ [][Next]_vars

---------------------------------------------------------------------------
(* Claims about the helpers, checked under SpecHelpers *)

IsCall(op) == last.op = op

\* C1: whenever the HTTP status is not 200 and get_user_info was called with
\* the target user's own key, get_user_info raises; the status code is never
\* returned as a normal result.
C1_SelfLookupRaises ==
    (/\ IsCall("get_user_info")
     /\ last.args.own
     /\ last.args.response.status # 200)
    => last.result.outcome = "raise"

\* C2: for every get_user_info call whose credential is not the target user's
\* own key, a status other than 200 is returned as that integer without
\* raising, and a status of 200 yields the parsed JSON body, never an integer.
C2_ForeignLookupReturnsStatus ==
    (IsCall("get_user_info") /\ ~last.args.own)
    => /\ last.result.outcome = "return"
       /\ last.args.response.status # 200
            => /\ last.result.value.type = "int"
               /\ last.result.value.v = last.args.response.status
       /\ last.args.response.status = 200
            => /\ last.result.value.type = "json"
               /\ last.result.value.v = last.args.response.json

C2_Witness ==
    /\ IsCall("get_user_info")
    /\ ~last.args.own
    /\ last.args.call_user \in IssuedKeys
    /\ last.args.response.status = 403
    /\ last.result = Return(IntVal(403), last.result.logs)

\* C3: new_user returns the parsed JSON body exactly when the status is 200;
\* for any other status it logs through ai_dynamic_error_handling at error
\* level and then raises an exception whose message carries the request index
\* and the status code.
C3_NewUserReturnsIffOk ==
    IsCall("new_user")
    => LET status == last.args.response.status
           result == last.result
       IN  /\ result.outcome = "return" <=> status = 200
           /\ result.outcome \in {"return", "raise"}
           /\ status = 200
                => /\ result.value.type = "json"
                   /\ result.value.v = last.args.response.json
           /\ status # 200
                => /\ result.value.type = "Exception"
                   /\ result.value.v[2] = ToString(last.args.i)
                   /\ result.value.v[4] = ToString(status)
                   /\ Len(result.logs) = 2
                   /\ result.logs[2].level = "ERROR"
                   /\ result.logs[2] =
                        ai_dynamic_error_handling(status, last.args.response.text).logs[1]
                   /\ log[Len(log)] = result.logs[2]

C3_Witness ==
    /\ IsCall("new_user")
    /\ last.args.response.status = 500
    /\ last.args.i = 1
    /\ last.result.outcome = "raise"
    /\ log[Len(log)].level = "ERROR"

LevelName == [info |-> "INFO", error |-> "ERROR", debug |-> "DEBUG", warning |-> "WARNING"]

\* C6: ai_log writes the message unmodified at the given level for each of
\* info, error, debug and warning; any other level is written at warning
\* level with a note embedding the level and the message; it never raises.
C6_FourLevelsUnmodified ==
    IsCall("ai_log")
    => LET level == last.args.level
           message == last.args.message
       IN  /\ last.result.outcome = "return"
           /\ Len(last.result.logs) = 1
           /\ level \in DOMAIN LevelName
                => last.result.logs[1] = [level |-> LevelName[level], message |-> message]
           /\ level \notin DOMAIN LevelName
                => /\ last.result.logs[1].level = "WARNING"
                   /\ last.result.logs[1].message =
                        <<"Unknown log level: ", level, ". Message: ">> \o message

Canned ==
    (400 :> <<"Bad Request: The server could not understand the request.">>)
    @@ (401 :> <<"Unauthorized: Access is denied due to invalid credentials.">>)
    @@ (403 :> <<"Forbidden: You don't have permission to access this resource.">>)
    @@ (404 :> <<"Not Found: The requested resource could not be found.">>)
    @@ (500 :> <<"Internal Server Error: The server encountered an error.">>)

\* C7: ai_dynamic_error_handling returns a report with the same status code
\* and the canned message for 400, 401, 403, 404 and 500, the generic
\* "Unexpected error: <code>" message for any other code; it appends exactly
\* one entry to the log, at error level, and changes nothing else.
C7_Classification ==
    [][(calls' = calls + 1 /\ last'.op = "ai_dynamic_error_handling")
       => LET code == last'.args.status_code
              report == last'.result.value
          IN  /\ last'.result.outcome = "return"
              /\ report.status_code = code
              /\ code \in {400, 401, 403, 404, 500} => report.error_message = Canned[code]
              /\ code \notin {400, 401, 403, 404, 500}
                   => report.error_message = <<"Unexpected error: ", ToString(code)>>
              /\ Len(log') = Len(log) + 1
              /\ SubSeq(log', 1, Len(log)) = log
              /\ log'[Len(log')].level = "ERROR"
              /\ UNCHANGED <<issued, scenario, pc, outcome, locals, tasks>>]_vars

C7_Witness ==
    /\ IsCall("ai_dynamic_error_handling")
    /\ \/ /\ last.args.status_code = 404
          /\ last.result.value.error_message[1]
               = "Not Found: The requested resource could not be found."
       \/ /\ last.args.status_code = 599
          /\ last.result.value.error_message = <<"Unexpected error: ", "599">>
    /\ calls = 2
    /\ log[Len(log)].level = "ERROR"

\* C8 (as stated): chat_completion returns the completion obtained from the
\* client to its caller.
C8_ReturnsCompletion ==
    IsCall("chat_completion")
    => /\ last.result.outcome = "return"
       /\ last.result.value.type = "completion"
       /\ last.result.value.v = last.args.response

\* C8 (amended): chat_completion issues one non-streaming completion request,
\* logs the completion at info level and returns None.
C8_LogsAndReturnsNone ==
    IsCall("chat_completion")
    => /\ last.result.outcome = "return"
       /\ last.result.value.type = "NoneType"
       /\ last.args.request.stream = FALSE
       /\ last.result.logs =
            <<[level |-> "INFO",
               message |-> <<"Chat completion response: ", last.args.response>>]>>

C8_Witness ==
    /\ IsCall("chat_completion")
    /\ last.result.value = NoneVal
    /\ Len(log) > 0
    /\ log[Len(log)].message[2] = "completion-1"


---------------------------------------------------------------------------
(* Claims about the scenarios *)

\* C4: test_user_info passes only when the admin lookup got status 200, the
\* lookup with the user's own key got status 200 and the lookup with the
\* unrelated user's key got status 403.
C4_PassesOnlyOn200_200_403 ==
    (scenario = "test_user_info" /\ outcome = "passed")
    => /\ locals.status_admin = 200
       /\ locals.status_self = 200
       /\ locals.status_random = 403

C9_AtMostThreePolls ==
    (scenario = "test_users_budgets_reset" /\ "polls" \in DOMAIN locals)
    => locals.polls <= 3

\* C10: in test_users_budgets_reset the loop counter i is always 0, the loop
\* is left only through the break after a poll saw a changed budget_reset_at,
\* and so the final assertion, once reached, cannot fail.
C10_LoopLeftOnlyByBreak ==
    (scenario = "test_users_budgets_reset" /\ "i" \in DOMAIN locals)
    => /\ locals.i = 0
       /\ locals.exit \in {"none", "break"}
       /\ pc = "final"
            => /\ locals.exit = "break"
               /\ locals.polls >= 1
               /\ locals.reset_at_new_value # locals.reset_at_init_value
       /\ (pc = "done" /\ locals.exit # "none") => outcome = "passed"
       /\ (pc = "done" /\ outcome = "failed")
            => locals.error.type \in {"TypeError", "Exception"}

C10_Witness ==
    /\ scenario = "test_users_budgets_reset"
    /\ pc = "done"
    /\ outcome = "passed"
    /\ locals.polls = 3
    /\ locals.i = 0
    /\ locals.exit = "break"

====
